---- MODULE Spec2Model ----
(***************************************************************************)
(* django_firebase_auth/views.py as a state machine.                       *)
(*                                                                         *)
(* State: the host application's user table (db), the session attached to  *)
(* the client's requests (session), the two deployment flags the handlers  *)
(* read, and a record of the latest request (last): its inputs, the calls  *)
(* the handler made, in order, and the response it produced.               *)
(*                                                                         *)
(* Every handler is synchronous, so each request is one action.            *)
(***************************************************************************)
EXTENDS Naturals, Sequences, FiniteSets

VARIABLES db, session, last, ALLOW_NOT_CONFIRMED_EMAILS, CREATE_USER_IF_NOT_EXISTS

vars == <<db, session, last, ALLOW_NOT_CONFIRMED_EMAILS, CREATE_USER_IF_NOT_EXISTS>>

\* ------------------------------------------------------------------ bounds
\* Largest number of rows of the user table.
MaxUsers == 2

\* ------------------------------------------------------------------ values
\* Python's None, for the string-valued request fields.
NONE == "<None>"

\* The id of "no user": request.user is AnonymousUser.
Anonymous == 0

UserIds == 1..MaxUsers

Emails == {"a@x", "b@x"}

\* The password every stored user has, and the one a user created without a
\* password has (never equal to a submitted one).
StoredPassword == "pw"
UnusablePassword == "!"

\* What a POST may carry in its email, password and next fields.
EmailFields == {NONE, ""} \cup Emails
PasswordFields == {NONE, "", "pw", "bad"}
NextFields == {NONE, "home", "bogus"}

\* `not x` of Python for an Optional[str].
Falsy(x) == x = NONE \/ x = ""

\* ------------------------------------------------------- identity tokens
\* The header value: None when the header is absent, else the token sent.
\* A token is described by what the verification service makes of it.
None == [form |-> "None"]

Payloads ==
    [email : Emails, email_verified : BOOLEAN] \cup [email : Emails]

Tokens ==
    {[form |-> "empty"], [form |-> "malformed"], [form |-> "expired"]}
        \cup [form : {"good"}, claims : Payloads]

HeaderValues == {None} \cup Tokens

\* ------------------------------------------------------------ exceptions
\* The classes the handlers raise or catch, each with its direct base.
Base ==
    [AuthError |-> "Exception",
     NoAuthHeader |-> "AuthError",
     JWTExpired |-> "AuthError",
     JWTInvalid |-> "AuthError",
     UserNotRegistered |-> "AuthError",
     EmailNotVerified |-> "AuthError",
     FirebaseError |-> "Exception",
     InvalidIdTokenError |-> "FirebaseError",
     ExpiredIdTokenError |-> "InvalidIdTokenError",
     ValueError |-> "Exception",
     KeyError |-> "Exception",
     UserNotFound |-> "Exception",
     DoesNotExist |-> "Exception",
     MultipleObjectsReturned |-> "Exception",
     NoReverseMatch |-> "Exception",
     Exception |-> "Exception"]

RECURSIVE IsInstance(_, _)
\* `except cls` catches exc: cls is exc's class or one of its bases.
IsInstance(exc, cls) ==
    IF exc = cls THEN TRUE
    ELSE IF exc = "Exception" THEN FALSE
    ELSE IsInstance(Base[exc], cls)

error_type ==
    [AuthError |-> "OTHER",
     NoAuthHeader |-> "NO_AUTH_HEADER",
     JWTExpired |-> "JWT_EXPIRED",
     JWTInvalid |-> "JWT_INVALID",
     UserNotRegistered |-> "USER_NOT_REGISTERED",
     EmailNotVerified |-> "EMAIL_NOT_VERIFIED"]

error_description ==
    [AuthError |-> "Something went wrong",
     NoAuthHeader |-> "Missing Firebase authentication header",
     JWTExpired |-> "Firebase authentication token is expired",
     JWTInvalid |-> "Firebase authentication token is invalid",
     UserNotRegistered |-> "This user has not been registered",
     EmailNotVerified |-> "User email has not been verified"]

make_response_body(cls) ==
    [error |-> error_type[cls], description |-> error_description[cls]]

\* ------------------------------------------------------------- responses
JsonResponse(body, status) == [kind |-> "json", status |-> status, body |-> body]

StatusOk == [status |-> "ok"]

\* An exception that leaves the handler: the framework answers 500.
Unhandled(exc) == [kind |-> "unhandled", status |-> 500, body |-> [exception |-> exc]]

\* ---------------------------------------------------------------- session
NoSession == [user |-> Anonymous, via |-> "none", jwt |-> None]

\* django.contrib.auth.login: the request's session now belongs to user.
\* via and jwt remember which handler logged in, and with which header.
login(user, via, jwt) == [user |-> user, via |-> via, jwt |-> jwt]

\* Mutant of django_logout: the session is not flushed.
django_logout_keeps_session(s) == s

\* django.contrib.auth.logout: the session is flushed.
django_logout(s) == NoSession

\* --------------------------------------------------- token verification
\* firebase_admin.auth.verify_id_token: the claims, or the exception raised.
verify_id_token(jwt) ==
    CASE jwt.form = "good" -> [raised |-> "", value |-> jwt.claims]
      [] jwt.form = "expired" -> [raised |-> "ExpiredIdTokenError", value |-> << >>]
      [] jwt.form = "malformed" -> [raised |-> "InvalidIdTokenError", value |-> << >>]
      [] jwt.form = "empty" -> [raised |-> "ValueError", value |-> << >>]

Raise(exc, steps) == [raised |-> exc, value |-> << >>, steps |-> steps]

Return(value, steps) == [raised |-> "", value |-> value, steps |-> steps]

\* Mutant of _verify_firebase_account: the email_verified claim is not read.
_verify_firebase_account_any_email(jwt) ==
    IF jwt = None THEN Raise("NoAuthHeader", << >>)
    ELSE LET r == verify_id_token(jwt)
             steps == <<"verify_id_token">>
         IN  IF r.raised # ""
             THEN IF IsInstance(r.raised, "ExpiredIdTokenError")
                  THEN Raise("JWTExpired", steps)
                  ELSE IF IsInstance(r.raised, "FirebaseError")
                  THEN Raise("JWTInvalid", steps)
                  ELSE Raise(r.raised, steps)
             ELSE Return(r.value, steps)

\* Mutant of _verify_firebase_account: the header is not tested for None, and
\* the verification of None is reported as an invalid token.
_verify_firebase_account_none_unchecked(jwt) ==
    LET r == IF jwt = None
             THEN [raised |-> "InvalidIdTokenError", value |-> << >>]
             ELSE verify_id_token(jwt)
        steps == <<"verify_id_token">>
    IN  IF r.raised # ""
        THEN IF IsInstance(r.raised, "ExpiredIdTokenError")
             THEN Raise("JWTExpired", steps)
             ELSE IF IsInstance(r.raised, "FirebaseError")
             THEN Raise("JWTInvalid", steps)
             ELSE Raise(r.raised, steps)
        ELSE IF "email_verified" \notin DOMAIN r.value
        THEN Raise("KeyError", steps)
        ELSE IF ~r.value.email_verified /\ ~ALLOW_NOT_CONFIRMED_EMAILS
        THEN Raise("EmailNotVerified", steps)
        ELSE Return(r.value, steps)

_verify_firebase_account(jwt) ==
    IF jwt = None THEN Raise("NoAuthHeader", << >>)
    ELSE LET r == verify_id_token(jwt)
             steps == <<"verify_id_token">>
         IN  IF r.raised # ""
             THEN IF IsInstance(r.raised, "ExpiredIdTokenError")
                  THEN Raise("JWTExpired", steps)
                  ELSE IF IsInstance(r.raised, "FirebaseError")
                  THEN Raise("JWTInvalid", steps)
                  ELSE Raise(r.raised, steps)
             ELSE IF "email_verified" \notin DOMAIN r.value
             THEN Raise("KeyError", steps)
             ELSE IF ~r.value.email_verified /\ ~ALLOW_NOT_CONFIRMED_EMAILS
             THEN Raise("EmailNotVerified", steps)
             ELSE Return(r.value, steps)

\* -------------------------------------------------------- user resolution
Matching(email) == {u \in DOMAIN db : db[u].email = email}

NewUser(email) ==
    [email |-> email, password |-> UnusablePassword, is_staff |-> FALSE]

FreeIds == UserIds \ DOMAIN db

\* user_getter.get_or_create_user: the outcomes the strategy may produce.
get_or_create_user(payload) ==
    LET found == Matching(payload.email) IN
    IF found # {}
    THEN {[raised |-> "", user |-> u, db |-> db, steps |-> <<"get_user">>] : u \in found}
    ELSE IF CREATE_USER_IF_NOT_EXISTS
    THEN {[raised |-> "",
           user |-> u,
           db |-> [x \in DOMAIN db \cup {u} |->
                      IF x = u THEN NewUser(payload.email) ELSE db[x]],
           steps |-> <<"get_user", "create_user">>]
            : u \in {f \in FreeIds : \A g \in FreeIds : f <= g}}
    ELSE {[raised |-> "UserNotFound", user |-> Anonymous, db |-> db,
           steps |-> <<"get_user">>]}

\* ----------------------------------------------------------- authenticate
Outcome(response, steps, s, d, resolved) ==
    [response |-> response, steps |-> steps, session |-> s, db |-> d,
     resolved |-> resolved]

\* Mutant of authenticate: an unregistered user ends the session at hand.
authenticate_unregistered_logs_out(jwt) ==
    LET v == _verify_firebase_account(jwt) IN
    IF v.raised # ""
    THEN IF IsInstance(v.raised, "AuthError")
         THEN {Outcome(JsonResponse(make_response_body(v.raised), 401),
                       v.steps, session, db, Anonymous)}
         ELSE {Outcome(Unhandled(v.raised), v.steps, session, db, Anonymous)}
    ELSE {IF g.raised # ""
          THEN Outcome(JsonResponse(make_response_body("UserNotRegistered"), 401),
                       v.steps \o g.steps, django_logout(session), db, Anonymous)
          ELSE Outcome(JsonResponse(StatusOk, 200),
                       v.steps \o g.steps \o <<"login">>,
                       login(g.user, "authenticate", jwt), g.db, g.user)
            : g \in get_or_create_user(v.value)}

\* Mutant of authenticate: a request that already has a session is answered
\* without a new login.
authenticate_keeps_old_session(jwt) ==
    LET v == _verify_firebase_account(jwt) IN
    IF v.raised # ""
    THEN IF IsInstance(v.raised, "AuthError")
         THEN {Outcome(JsonResponse(make_response_body(v.raised), 401),
                       v.steps, session, db, Anonymous)}
         ELSE {Outcome(Unhandled(v.raised), v.steps, session, db, Anonymous)}
    ELSE {IF g.raised # ""
          THEN Outcome(JsonResponse(make_response_body("UserNotRegistered"), 401),
                       v.steps \o g.steps, session, db, Anonymous)
          ELSE IF session.user # Anonymous
          THEN Outcome(JsonResponse(StatusOk, 200), v.steps \o g.steps,
                       session, g.db, g.user)
          ELSE Outcome(JsonResponse(StatusOk, 200),
                       v.steps \o g.steps \o <<"login">>,
                       login(g.user, "authenticate", jwt), g.db, g.user)
            : g \in get_or_create_user(v.value)}

authenticate(jwt) ==
    LET v == _verify_firebase_account(jwt) IN
    IF v.raised # ""
    THEN IF IsInstance(v.raised, "AuthError")
         THEN {Outcome(JsonResponse(make_response_body(v.raised), 401),
                       v.steps, session, db, Anonymous)}
         ELSE {Outcome(Unhandled(v.raised), v.steps, session, db, Anonymous)}
    ELSE {IF g.raised # ""
          THEN Outcome(JsonResponse(make_response_body("UserNotRegistered"), 401),
                       v.steps \o g.steps, session, db, Anonymous)
          ELSE Outcome(JsonResponse(StatusOk, 200),
                       v.steps \o g.steps \o <<"login">>,
                       login(g.user, "authenticate", jwt), g.db, g.user)
            : g \in get_or_create_user(v.value)}

logout ==
    Outcome(JsonResponse(StatusOk, 200), <<"logout">>, django_logout(session), db,
            Anonymous)

\* --------------------------------------------------------- AdminLoginView
_BAD_CREDENTIALS == "Wrong email or password"

_NON_STAFF == "To access admin panel, you must login as a staff member"

ADMIN_LOGIN_REDIRECT_URL == "admin:index"

\* django.shortcuts.resolve_url for a string: a URL is returned as it is, a
\* URL pattern name is reversed, anything else raises NoReverseMatch.
resolve_url(to) ==
    CASE to = "/x" -> [raised |-> "", value |-> to]
      [] to = "home" -> [raised |-> "", value |-> "/home/"]
      [] to = "admin:index" -> [raised |-> "", value |-> "/admin/"]
      [] OTHER -> [raised |-> "NoReverseMatch", value |-> NONE]

_get_next(query_next) ==
    LET r == resolve_url(query_next)
        next == IF ~Falsy(query_next) /\ r.raised = "" THEN r.value ELSE query_next
    IN  IF ~Falsy(next) THEN next ELSE resolve_url(ADMIN_LOGIN_REDIRECT_URL).value

_render(next, error) ==
    [kind |-> "html", status |-> 200,
     body |-> [login_redirect_url |-> next, error |-> error]]

redirect(to) == [kind |-> "redirect", status |-> 302, body |-> [location |-> to]]

is_authenticated(s) == s.user # Anonymous

is_staff(s) == s.user # Anonymous /\ db[s.user].is_staff

check_password(user, password) == db[user].password = password

get(query_next) ==
    LET next == _get_next(query_next) IN
    IF is_authenticated(session)
    THEN IF is_staff(session)
         THEN Outcome(redirect(next), << >>, session, db, Anonymous)
         ELSE Outcome(_render(next, _NON_STAFF), << >>, session, db, Anonymous)
    ELSE Outcome(_render(next, NONE), << >>, session, db, Anonymous)

post(email, password, query_next) ==
    LET next == _get_next(query_next)
        found == Matching(email)
    IN  IF Falsy(email)
        THEN Outcome(_render(next, "Email field must be non-empty"), << >>,
                     session, db, Anonymous)
        ELSE IF Falsy(password)
        THEN Outcome(_render(next, "Password field must be non-empty"), << >>,
                     session, db, Anonymous)
        ELSE IF found = {}
        THEN Outcome(_render(next, _BAD_CREDENTIALS), <<"objects.get">>,
                     session, db, Anonymous)
        ELSE IF Cardinality(found) > 1
        THEN Outcome(Unhandled("MultipleObjectsReturned"), <<"objects.get">>,
                     session, db, Anonymous)
        ELSE LET user == CHOOSE u \in found : TRUE IN
             IF check_password(user, password)
             THEN LET s == login(user, "admin_login", None) IN
                  IF is_staff(s)
                  THEN Outcome(redirect(next),
                               <<"objects.get", "check_password", "login">>,
                               s, db, user)
                  ELSE Outcome(_render(next, _NON_STAFF),
                               <<"objects.get", "check_password", "login">>,
                               s, db, user)
             ELSE Outcome(_render(next, _BAD_CREDENTIALS),
                          <<"objects.get", "check_password">>,
                          session, db, Anonymous)

\* ------------------------------------------------------------------ state
Request(handler, jwt, email, password, next, o) ==
    [handler |-> handler, jwt |-> jwt, email |-> email, password |-> password,
     next |-> next, before |-> session, steps |-> o.steps,
     response |-> o.response, resolved |-> o.resolved]

NoRequest ==
    [handler |-> "none", jwt |-> None, email |-> NONE, password |-> NONE,
     next |-> NONE, before |-> NoSession, steps |-> << >>,
     response |-> [kind |-> "none", status |-> 0, body |-> << >>],
     resolved |-> Anonymous]

UserRecords == [email : Emails, password : {StoredPassword}, is_staff : BOOLEAN]

Tables == UNION {[S -> UserRecords] : S \in SUBSET UserIds}

Init ==
    /\ db \in Tables
    /\ session = NoSession
    /\ last = NoRequest
    /\ ALLOW_NOT_CONFIRMED_EMAILS \in BOOLEAN
    /\ CREATE_USER_IF_NOT_EXISTS \in BOOLEAN

Config == <<ALLOW_NOT_CONFIRMED_EMAILS, CREATE_USER_IF_NOT_EXISTS>>

Authenticate ==
    \E jwt \in HeaderValues :
        \E o \in authenticate(jwt) :
            /\ db' = o.db
            /\ session' = o.session
            /\ last' = Request("authenticate", jwt, NONE, NONE, NONE, o)
            /\ UNCHANGED Config

Logout ==
    /\ db' = logout.db
    /\ session' = logout.session
    /\ last' = Request("logout", None, NONE, NONE, NONE, logout)
    /\ UNCHANGED Config

AdminGet ==
    \E query_next \in NextFields :
        LET o == get(query_next) IN
        /\ db' = o.db
        /\ session' = o.session
        /\ last' = Request("get", None, NONE, NONE, query_next, o)
        /\ UNCHANGED Config

AdminPost ==
    \E email \in EmailFields, password \in PasswordFields, query_next \in NextFields :
        LET o == post(email, password, query_next) IN
        /\ db' = o.db
        /\ session' = o.session
        /\ last' = Request("post", None, email, password, query_next, o)
        /\ UNCHANGED Config

Next == Authenticate \/ Logout \/ AdminGet \/ AdminPost

Spec == Init /\ [][Next]_vars

\* ------------------------------------------------- vocabulary of the claims
\* The latest handler made this call.
Called(step) == \E i \in 1..Len(last.steps) : last.steps[i] = step

\* The latest request was answered with this member of the error taxonomy.
Answered401(cls) == last.response = JsonResponse(make_response_body(cls), 401)

AnsweredOk == last.response = JsonResponse(StatusOk, 200)

\* The header carried a token the verification service accepts.
Accepted(jwt) == jwt # None /\ jwt.form = "good"

HasEmailVerified(jwt) == "email_verified" \in DOMAIN jwt.claims

\* Accepted, and the email_verified claim is true or unverified emails are allowed.
Verified(jwt) ==
    /\ Accepted(jwt)
    /\ HasEmailVerified(jwt)
    /\ (jwt.claims.email_verified \/ ALLOW_NOT_CONFIRMED_EMAILS)

Taxonomy ==
    {"NoAuthHeader", "JWTExpired", "JWTInvalid", "EmailNotVerified", "UserNotRegistered"}

\* -------------------------------------------------------------------- C1
\* C1: a session established by authenticate belongs to a request whose header
\* carried a token the verification service accepted, with email_verified true
\* unless ALLOW_NOT_CONFIRMED_EMAILS is set, and to a user matching that token;
\* authenticate never calls login when verification raised or when the user
\* resolution raised UserNotFound.
C1_SessionOnlyForVerifiedToken ==
    /\ session.via = "authenticate" =>
          /\ Verified(session.jwt)
          /\ session.user \in DOMAIN db
          /\ db[session.user].email = session.jwt.claims.email
    /\ (last.handler = "authenticate" /\ Called("login")) =>
          /\ Verified(last.jwt)
          /\ last.resolved \in DOMAIN db
          /\ session = login(last.resolved, "authenticate", last.jwt)

C1_Witness ==
    /\ last.handler = "post"
    /\ session.via = "authenticate"
    /\ ~session.jwt.claims.email_verified

\* -------------------------------------------------------------------- C2
\* C2: AdminLoginView.post establishes a session only if the password is
\* correct and the user is staff: after a POST by a non-staff user with a
\* correct password the form is re-rendered with the "not staff" message and
\* no session exists for that user.
C2_PostLogsInOnlyStaff ==
    (/\ last.handler = "post"
     /\ Called("check_password")
     /\ last.resolved # Anonymous
     /\ ~db[last.resolved].is_staff)
        => /\ last.response.kind = "html"
           /\ last.response.body.error = _NON_STAFF
           /\ session.user # last.resolved
           /\ ~Called("login")

\* -------------------------------------------------------------------- C3
\* C3: every authenticate request ends with 200 {"status": "ok"} or with 401
\* and the body of one member of the error taxonomy; nothing leaves the
\* handler as an unhandled exception, whatever the header, the verification
\* outcome and the resolution outcome.
C3_AuthenticateAlwaysAnswers ==
    last.handler = "authenticate" =>
        \/ AnsweredOk
        \/ \E cls \in Taxonomy : Answered401(cls)

\* -------------------------------------------------------------------- C4
\* C4: with the header present, an expired token yields 401 JWT_EXPIRED and a
\* verification failure for any other reason yields 401 JWT_INVALID; in both
\* cases the user is not resolved and login is not called.
C4_FailureClassifiedByCause ==
    (last.handler = "authenticate" /\ last.jwt # None /\ ~Accepted(last.jwt)) =>
        /\ (last.jwt.form = "expired" => Answered401("JWTExpired"))
        /\ (last.jwt.form # "expired" => Answered401("JWTInvalid"))
        /\ ~Called("get_user")
        /\ ~Called("login")

\* -------------------------------------------------------------------- C5
\* C5: with the header absent authenticate answers 401 NO_AUTH_HEADER before
\* any other step: the verification service is not called, the user is not
\* resolved and the session is left as it was.
C5_NoHeaderAnsweredFirst ==
    (last.handler = "authenticate" /\ last.jwt = None) =>
        /\ Answered401("NoAuthHeader")
        /\ last.steps = << >>
        /\ session = last.before

C5_Witness ==
    /\ last.handler = "authenticate"
    /\ last.jwt = None
    /\ session.user # Anonymous

\* -------------------------------------------------------------------- C6
\* C6: for an accepted token authenticate answers 401 EMAIL_NOT_VERIFIED
\* exactly when email_verified is false and ALLOW_NOT_CONFIRMED_EMAILS is
\* false, and then resolves no user and establishes no session; in every other
\* case (claim true, or unverified emails allowed) it goes on to resolve the
\* user.
C6_EmailNotVerifiedExactly ==
    (last.handler = "authenticate" /\ Accepted(last.jwt)) =>
        LET unverified == HasEmailVerified(last.jwt)
                             /\ ~last.jwt.claims.email_verified
            verified == HasEmailVerified(last.jwt)
                             /\ last.jwt.claims.email_verified
        IN  /\ Answered401("EmailNotVerified")
                  <=> (unverified /\ ~ALLOW_NOT_CONFIRMED_EMAILS)
            /\ Answered401("EmailNotVerified")
                  => (~Called("get_user") /\ ~Called("login")
                        /\ session = last.before)
            /\ (verified \/ ALLOW_NOT_CONFIRMED_EMAILS) => Called("get_user")

C9_LogoutUnconditional ==
    last.handler = "logout" =>
        /\ session = NoSession
        /\ AnsweredOk
        /\ last.steps = <<"logout">>

C9_Witness ==
    /\ last.handler = "logout"
    /\ last.before.via = "authenticate"
    /\ session = NoSession

\* Logout also reached from the other two kinds of state.
C9_FromStaffForm == last.handler = "logout" /\ last.before.via = "admin_login"

C9_FromNoSession == last.handler = "logout" /\ last.before = NoSession

\* ------------------------------------------------------------------- C10
\* C10: a failing AdminLoginView POST re-renders the form with a message and
\* never raises: for a missing or empty email, a missing or empty password, a
\* wrong password, and a lookup by email that matches no user or more than
\* one; in each case no session is established.
C10_FailingPostRendersForm ==
    (/\ last.handler = "post"
     /\ \/ Falsy(last.email)
        \/ Falsy(last.password)
        \/ Cardinality(Matching(last.email)) # 1
        \/ \E u \in Matching(last.email) : db[u].password # last.password)
        => /\ last.response.kind = "html"
           /\ last.response.body.error # NONE
           /\ ~Called("login")
           /\ session = last.before

====
